---------------------------- MODULE Spec2Model ----------------------------
(***************************************************************************)
(* Model of the mask pipeline of selectionBiasChallenge:                   *)
(*   - create_masked_stipple        (src/step5_create_masked.py)           *)
(*   - create_block_letter_s and _create_simple_block_letter               *)
(*                                  (src/step4_create_block_letter.py)     *)
(*                                                                         *)
(* Raster cells are real numbers in the source.  The model holds a cell    *)
(* value v as the integer 2*v, so 0.0 is 0, 0.5 is 1 and 1.0 is 2; -1 and  *)
(* 3 stand for the out-of-range values -0.5 and 1.5.  Comparison and       *)
(* equality of these values are exact in floating point.                   *)
(***************************************************************************)
EXTENDS Integers, Naturals, Sequences, FiniteSets, TLC

VARIABLES
    \* ---- create_masked_stipple ----
    pc,              \* position in create_masked_stipple / its caller
    call,            \* number of calls made so far by the caller (1 or 2)
    heap,            \* address -> ndarray object, for the addresses in use
    stipple_img,     \* address of the stipple argument
    mask_img,        \* address of the mask argument
    threshold,       \* threshold argument (units of 1/2)
    masked_stipple,  \* local: address of the copy, or None
    mask_areas,      \* local: set of cells below threshold, or None
    out,             \* lines printed so far by the current call
    error,           \* exception raised to the caller, or None
    ret,             \* address returned to the caller, or None
    stipple0,        \* value of the stipple argument when the call was made
    mask0,           \* value of the mask argument when the call was made
    result1,         \* value returned by the first call (kept by the caller)
    \* ---- create_block_letter_s ----
    gpc,             \* position in create_block_letter_s
    height, width, letter, font_size_ratio,   \* arguments
    font_size,       \* local
    idx,             \* index of font_path in font_paths
    font,            \* NoFont, the loaded truetype font, or the default font
    probed,          \* indices passed to os.path.exists, in call order
    loads,           \* calls made to ImageFont.truetype, in call order
    default_tried,   \* ImageFont.load_default was called
    bbox,            \* value returned by draw.textbbox, or None
    text_width, text_height,   \* locals, held in tenths
    x, y,            \* locals: draw position
    drawn,           \* the draw.text call made, or None
    gout,            \* lines printed
    gexc,            \* exception propagated to the caller, or None
    result           \* raster returned by create_block_letter_s, or None

mvars == <<pc, call, heap, stipple_img, mask_img, threshold, masked_stipple,
           mask_areas, out, error, ret, stipple0, mask0, result1>>
gvars == <<gpc, height, width, letter, font_size_ratio, font_size, idx, font,
           probed, loads, default_tried, bbox, text_width, text_height, x, y,
           drawn, gout, gexc, result>>
vars == <<mvars, gvars>>

\* Values of names that are not bound yet
NoAddr == 0
NoRaster == [shape |-> <<0, 0>>, data |-> <<>>]
NoError == [type |-> "None"]
NoAreas == <<>>

-----------------------------------------------------------------------------
(* Bounds of the model *)

MaxCells == 2        \* rasters have at most this many cells
MaxDim == 3          \* canvas height and width range over 1..MaxDim
MaxText == 3         \* measured glyph boxes are at most MaxText wide and high

(* Program constants *)

ZERO == 0            \* 0.0
ONE == 2             \* 1.0
DefaultThreshold == 1  \* 0.5

-----------------------------------------------------------------------------
(* Rasters (numpy.ndarray of two dimensions) *)

Shapes == {s \in (1..MaxCells) \X (1..MaxCells) : s[1] * s[2] <= MaxCells}

Cells(shape) == (1..shape[1]) \X (1..shape[2])

StippleValues == {-1, ZERO, 1, ONE, 3}
MaskValues == {ZERO, 1, ONE}
Thresholds == {ZERO, DefaultThreshold, ONE}

Rasters(values) ==
    UNION {[shape : {s}, data : [Cells(s) -> values]] : s \in Shapes}

Size(a) == a.shape[1] * a.shape[2]

\* a check that compares the element counts only
SizesDiffer(a, b) == Size(a) # Size(b)
\* stipple_img.shape != mask_img.shape
ShapesDiffer(a, b) == a.shape # b.shape

\* masked_stipple = stipple_img, without the copy
AliasAddr(src, fresh) == src
\* stipple_img.copy(): a new array object holding the same values
CopyAddr(src, fresh) == fresh

\* mask_img <= threshold
MaskAreasLE(m, t) == {c \in DOMAIN m.data : m.data[c] <= t}
\* mask_img < threshold
MaskAreas(m, t) == {c \in DOMAIN m.data : m.data[c] < t}

\* an assignment that inverts the masked cells (1.0 - value)
AssignInverted(a, areas) ==
    [a EXCEPT !.data = [c \in DOMAIN a.data |->
                           IF c \in areas THEN ONE - a.data[c] ELSE a.data[c]]]
\* an assignment that also clips every cell to [0, 1]
AssignClipped(a, areas) ==
    [a EXCEPT !.data = [c \in DOMAIN a.data |->
                           IF c \in areas \/ a.data[c] > ONE THEN ONE
                           ELSE IF a.data[c] < ZERO THEN ZERO ELSE a.data[c]]]
\* masked_stipple[mask_areas] = 1.0
AssignMasked(a, areas) ==
    [a EXCEPT !.data = [c \in DOMAIN a.data |->
                           IF c \in areas THEN ONE ELSE a.data[c]]]

\* np.sum(mask_areas)
SumAreas(areas) == Cardinality(areas)

\* np.sum(masked_stipple == 1.0)
CountBackground(a) == Cardinality({c \in DOMAIN a.data : a.data[c] = ONE})
\* np.sum(masked_stipple == 0.0)
RemainingStipples(a) == Cardinality({c \in DOMAIN a.data : a.data[c] = ZERO})

\* f"{np.sum(mask_areas) / mask_areas.size * 100:.1f}", in tenths of a percent.
\* A tie between two tenths needs size to be a multiple of 32, so for the
\* sizes of the model rounding to nearest decides.
Percent10(n, size) == (2000 * n + size) \div (2 * size)

\* the address a newly created array object gets
FreshAddr(h) == Cardinality(DOMAIN h) + 1

\* h with the object at address a replaced by (or created as) v
Store(h, a, v) == [b \in DOMAIN h \cup {a} |-> IF b = a THEN v ELSE h[b]]

-----------------------------------------------------------------------------
(* create_masked_stipple, as called by a caller that holds the two inputs *)

MInit ==
    /\ pc = "idle" /\ call = 0
    /\ heap = <<>>
    /\ stipple_img = NoAddr /\ mask_img = NoAddr /\ threshold = DefaultThreshold
    /\ masked_stipple = NoAddr /\ mask_areas = NoAreas
    /\ out = <<>> /\ error = NoError /\ ret = NoAddr
    /\ stipple0 = NoRaster /\ mask0 = NoRaster /\ result1 = NoRaster

\* the caller builds two rasters and calls create_masked_stipple
Call ==
    /\ pc = "idle"
    /\ \E s \in Rasters(StippleValues), m \in Rasters(MaskValues), t \in Thresholds :
         /\ heap' = <<s, m>>
         /\ stipple_img' = 1 /\ mask_img' = 2 /\ threshold' = t
         /\ stipple0' = s /\ mask0' = m
    /\ call' = 1
    /\ pc' = "check"
    /\ UNCHANGED <<masked_stipple, mask_areas, out, error, ret, result1,
                   gvars>>

\* lines 35-36
CheckShape ==
    /\ pc = "check"
    /\ IF ShapesDiffer(heap[stipple_img], heap[mask_img])
       THEN /\ error' = [type |-> "ValueError",
                         stipple |-> heap[stipple_img].shape,
                         mask |-> heap[mask_img].shape]
            /\ pc' = "raised"
       ELSE /\ pc' = "copy"
            /\ UNCHANGED error
    /\ UNCHANGED <<call, heap, stipple_img, mask_img, threshold, masked_stipple,
                   mask_areas, out, ret, stipple0, mask0, result1,
                   gvars>>

\* line 39
Copy ==
    /\ pc = "copy"
    /\ LET dst == CopyAddr(stipple_img, FreshAddr(heap))
       IN /\ heap' = Store(heap, dst, heap[stipple_img])
          /\ masked_stipple' = dst
    /\ pc' = "threshold"
    /\ UNCHANGED <<call, stipple_img, mask_img, threshold, mask_areas, out,
                   error, ret, stipple0, mask0, result1,
                   gvars>>

\* line 42
Threshold ==
    /\ pc = "threshold"
    /\ mask_areas' = <<MaskAreas(heap[mask_img], threshold)>>
    /\ pc' = "assign"
    /\ UNCHANGED <<call, heap, stipple_img, mask_img, threshold, masked_stipple,
                   out, error, ret, stipple0, mask0, result1,
                   gvars>>

\* line 47
Assign ==
    /\ pc = "assign"
    /\ heap' = [heap EXCEPT ![masked_stipple] = AssignMasked(@, mask_areas[1])]
    /\ pc' = "print"
    /\ UNCHANGED <<call, stipple_img, mask_img, threshold, masked_stipple,
                   mask_areas, out, error, ret, stipple0, mask0, result1,
                   gvars>>

\* lines 49-51
Report ==
    /\ pc = "print"
    /\ out' = << [msg |-> "Applied mask to stippled image"],
                 [msg |-> "Masked areas", pixels |-> SumAreas(mask_areas[1]),
                  percent10 |-> Percent10(SumAreas(mask_areas[1]), Size(heap[mask_img]))],
                 [msg |-> "Remaining stipples",
                  count |-> RemainingStipples(heap[masked_stipple])] >>
    /\ pc' = "return"
    /\ UNCHANGED <<call, heap, stipple_img, mask_img, threshold, masked_stipple,
                   mask_areas, error, ret, stipple0, mask0, result1,
                   gvars>>

\* line 53
Return ==
    /\ pc = "return"
    /\ ret' = masked_stipple
    /\ pc' = "returned"
    /\ UNCHANGED <<call, heap, stipple_img, mask_img, threshold, masked_stipple,
                   mask_areas, out, error, stipple0, mask0, result1,
                   gvars>>

\* the caller applies the same mask and threshold to the raster it got back
CallAgain ==
    /\ pc = "returned" /\ call = 1
    /\ result1' = heap[ret]
    /\ stipple_img' = ret
    /\ stipple0' = heap[ret]
    /\ call' = 2
    /\ masked_stipple' = NoAddr /\ mask_areas' = NoAreas /\ out' = <<>> /\ ret' = NoAddr
    /\ pc' = "check"
    /\ UNCHANGED <<heap, mask_img, threshold, error, mask0,
                   gvars>>

\* the caller writes a cell of the raster it got back
CallerWrite ==
    /\ pc = "returned"
    /\ \E c \in DOMAIN heap[ret].data, v \in StippleValues :
         heap' = [heap EXCEPT ![ret].data[c] = v]
    /\ pc' = "done"
    /\ UNCHANGED <<call, stipple_img, mask_img, threshold, masked_stipple,
                   mask_areas, out, error, ret, stipple0, mask0, result1,
                   gvars>>

-----------------------------------------------------------------------------
(* Properties of create_masked_stipple, checked under Spec *)

\* the cells of the mask argument that lie strictly below the threshold
Below == {c \in Cells(mask0.shape) : mask0.data[c] < threshold}

\* a StippleField: every cell is exactly 0.0 or 1.0
IsStippleField(a) == \A c \in DOMAIN a.data : a.data[c] \in {ZERO, ONE}

SameShape == stipple0.shape = mask0.shape

\* C1: for inputs of identical shape, the returned raster has the inputs'
\* shape, every cell whose mask value is strictly below threshold is exactly
\* 1.0, and every other cell (a mask value equal to threshold included)
\* equals the input stipple cell.
C1_MaskedCellsAreOne ==
    (pc = "returned") =>
        /\ heap[ret].shape = stipple0.shape
        /\ DOMAIN heap[ret].data = Cells(stipple0.shape)
        /\ \A c \in Cells(stipple0.shape) :
             IF mask0.data[c] < threshold
             THEN heap[ret].data[c] = ONE
             ELSE heap[ret].data[c] = stipple0.data[c]

\* a call has returned where one sample is masked and another sample, whose
\* mask value equals the threshold, is kept
C1_Witness ==
    /\ pc = "returned" /\ call = 1
    /\ \E c, d \in Cells(stipple0.shape) :
         /\ stipple0.data[c] = ZERO /\ mask0.data[c] < threshold
         /\ stipple0.data[d] = ZERO /\ mask0.data[d] = threshold
         /\ heap[ret].data[c] = ONE /\ heap[ret].data[d] = ZERO

\* C2: with inputs of different shapes the call fails with an error that
\* carries both shapes, before any copy, thresholding or output, and no
\* raster is returned.
C2_ShapeMismatchRaises ==
    (pc \notin {"idle", "check"} /\ ~SameShape) =>
        /\ pc = "raised"
        /\ error = [type |-> "ValueError", stipple |-> stipple0.shape,
                    mask |-> mask0.shape]
        /\ DOMAIN heap = {stipple_img, mask_img}
        /\ masked_stipple = NoAddr
        /\ mask_areas = NoAreas
        /\ out = <<>>
        /\ ret = NoAddr

\* a call with a 1x2 stipple and a 2x1 mask has failed
C2_Witness ==
    /\ pc = "raised"
    /\ stipple0.shape = <<1, 2>> /\ mask0.shape = <<2, 1>>
    /\ error.type = "ValueError"

\* C3: the two inputs hold the values they had when the call was made, during
\* and after every call, failing or not, and also after the caller has
\* written to the raster it got back; the returned object is neither input.
C3_InputsUnchanged ==
    (pc # "idle") =>
        /\ heap[stipple_img] = stipple0
        /\ heap[mask_img] = mask0
        /\ ret # NoAddr => ret \notin {stipple_img, mask_img}

\* the caller has overwritten a cell of the returned raster with a value the
\* input does not hold there
C3_Witness ==
    /\ pc = "done"
    /\ \E c \in Cells(stipple0.shape) :
         /\ heap[ret].data[c] = 3 /\ stipple0.data[c] = ZERO
         /\ mask0.data[c] >= threshold

\* C4: applying the same mask and threshold to the result of a call returns
\* the same raster, cell for cell.
C4_Idempotent ==
    (pc = "returned" /\ call = 2) => heap[ret] = result1

\* the second call has returned, and the first call had changed a cell
C4_Witness ==
    /\ pc = "returned" /\ call = 2
    /\ heap[1] # result1

\* C5 as stated: a stipple input with a cell that is not 0.0 or 1.0 makes the
\* call fail and return no raster.
C5_RejectsInvalidValues ==
    (pc \notin {"idle", "check"} /\ ~IsStippleField(stipple0)) =>
        (pc = "raised" /\ error # NoError /\ ret = NoAddr)

\* C5 as amended: cell values are not validated.  With matching shapes a
\* stipple input holding cells other than 0.0 and 1.0 raises nothing, and the
\* returned raster holds each such cell unchanged unless it is masked, where
\* it holds 1.0.
C5_InvalidValuesPassThrough ==
    (pc # "idle" /\ SameShape /\ ~IsStippleField(stipple0)) =>
        /\ pc # "raised" /\ error = NoError
        /\ (pc = "returned") =>
             \A c \in Cells(stipple0.shape) :
               stipple0.data[c] \notin {ZERO, ONE} =>
                 heap[ret].data[c] = IF c \in Below THEN ONE ELSE stipple0.data[c]

\* a call has returned a raster holding 1.5 and -0.5 where the input held them
C5_Witness ==
    /\ pc = "returned" /\ call = 1
    /\ \E c, d \in Cells(stipple0.shape) :
         /\ stipple0.data[c] = 3 /\ heap[ret].data[c] = 3
         /\ stipple0.data[d] = -1 /\ heap[ret].data[d] = -1

\* C6: for an all-0.0 stipple the number of 0.0 cells of the result is the
\* number of cells minus the number of mask cells below threshold, the
\* printed "Masked areas" and "Remaining stipples" counts are these two
\* numbers, and the count is strictly smaller than before when a mask cell is
\* below threshold.
C6_CountsForFullField ==
    (pc = "returned" /\ \A c \in Cells(stipple0.shape) : stipple0.data[c] = ZERO) =>
        LET n == Cardinality(Cells(stipple0.shape))
            zeros == Cardinality({c \in Cells(stipple0.shape) : heap[ret].data[c] = ZERO})
        IN /\ zeros = n - Cardinality(Below)
           /\ out[2].msg = "Masked areas" /\ out[2].pixels = Cardinality(Below)
           /\ out[3].msg = "Remaining stipples" /\ out[3].count = n - Cardinality(Below)
           /\ Below # {} => zeros < n

\* a call on a two-cell all-0.0 stipple has returned with exactly one cell masked
C6_Witness ==
    /\ pc = "returned" /\ call = 1
    /\ Cardinality(Cells(stipple0.shape)) = 2
    /\ \A c \in Cells(stipple0.shape) : stipple0.data[c] = ZERO
    /\ Cardinality(Below) = 1
    /\ out[3].count = 1

-----------------------------------------------------------------------------
(* create_block_letter_s *)

\* lines 45-52
font_paths ==
    << "/System/Library/Fonts/Helvetica.ttc",
       "/System/Library/Fonts/Arial.ttf",
       "/usr/share/fonts/truetype/dejavu/DejaVuSans-Bold.ttf",
       "C:/Windows/Fonts/arialbd.ttf",
       "C:/Windows/Fonts/arial.ttf" >>

\* font_path.endswith('.ttc')
EndsWithTtc(i) == i = 1

NoFont == [kind |-> "None"]

\* font_size_ratio is held in tenths: 5, 9 (the default) and 10 stand for
\* 0.5, 0.9 and 1.0
DefaultRatio == 9
Ratios == {5, DefaultRatio, 10}

Letters == {"S", "s", "A"}

\* letter.upper()
Upper(l) == IF l = "s" THEN "S" ELSE l

\* round-half-up of height * font_size_ratio
RoundOfProduct(h, r) == (2 * h * r + 10) \div 20
\* int(height * font_size_ratio): truncation of the product.  For the ratios
\* above the double product height * ratio truncates to the same integer as
\* the exact product.
IntOfProduct(h, r) == (h * r) \div 10

\* division that rounds the quotient toward zero
TruncDiv(a, b) == IF a >= 0 THEN a \div b ELSE -((-a) \div b)
\* Python's // on numbers: the quotient rounded toward minus infinity
PyFloorDiv(a, b) == a \div b

\* What each except clause does with the exception it catches
PropagateLoad == "propagate"
\* lines 65-66: except Exception: continue
OnTruetypeRaise == "continue"
\* lines 73-76: except: return _create_simple_block_letter(...)
OnDefaultRaise == "fallback"
\* lines 84-87: except: fallback estimation
OnBboxRaise == "estimate"
ContinueAfterLoad == "continue"
\* line 64: what follows a load that succeeded
AfterLoad == "break"

\* values draw.textbbox((0, 0), letter, font=font) can return
BBoxes == {<<o, o, o + w, o + h>> : o \in 0..1, w \in 1..MaxText, h \in 1..MaxText}

GIdle ==
    /\ gpc = "idle"
    /\ height = 0 /\ width = 0 /\ letter = "" /\ font_size_ratio = 0
    /\ font_size = 0 /\ idx = 0 /\ font = NoFont
    /\ probed = <<>> /\ loads = <<>> /\ default_tried = FALSE
    /\ bbox = <<>> /\ text_width = 0 /\ text_height = 0 /\ x = 0 /\ y = 0
    /\ drawn = <<>> /\ gout = <<>> /\ gexc = NoError /\ result = NoRaster

\* lines 38-54: the call, the blank canvas, font_size, font = None
GCall ==
    /\ gpc = "idle"
    /\ \E h \in 1..MaxDim, w \in 1..MaxDim, l \in Letters, r \in Ratios :
         /\ height' = h /\ width' = w /\ letter' = l /\ font_size_ratio' = r
         /\ font_size' = IntOfProduct(h, r)
    /\ idx' = 1
    /\ font' = NoFont
    /\ gpc' = "probe"
    /\ UNCHANGED <<probed, loads, default_tried, bbox, text_width, text_height,
                   x, y, drawn, gout, gexc, result, mvars>>

\* the for loop moves to the next font_path, or ends
NextPath(i) == IF i < Len(font_paths) THEN <<"probe", i + 1>> ELSE <<"fontcheck", i>>

\* lines 55-57: os.path.exists(font_path)
GProbe ==
    /\ gpc = "probe"
    /\ \E exists \in BOOLEAN :
         /\ probed' = Append(probed, [path |-> idx, exists |-> exists])
         /\ IF exists
            THEN gpc' = "load" /\ idx' = idx
            ELSE gpc' = NextPath(idx)[1] /\ idx' = NextPath(idx)[2]
    /\ UNCHANGED <<height, width, letter, font_size_ratio, font_size, font,
                   loads, default_tried, bbox, text_width, text_height, x, y,
                   drawn, gout, gexc, result, mvars>>

\* lines 59-66: ImageFont.truetype(font_path, font_size[, index=0])
GLoad ==
    /\ gpc = "load"
    /\ \E ok \in BOOLEAN :
         /\ loads' = Append(loads, [path |-> idx, size |-> font_size,
                                    index0 |-> EndsWithTtc(idx), ok |-> ok])
         /\ IF ok
            THEN /\ font' = [kind |-> "truetype", path |-> idx, size |-> font_size]
                 /\ gout' = Append(gout, [msg |-> "Using font", path |-> font_paths[idx]])
                 /\ gexc' = gexc
                 /\ IF AfterLoad = "break"
                    THEN gpc' = "fontcheck" /\ idx' = idx
                    ELSE gpc' = NextPath(idx)[1] /\ idx' = NextPath(idx)[2]
            ELSE /\ font' = font /\ gout' = gout
                 /\ IF OnTruetypeRaise = "continue"
                    THEN /\ gpc' = NextPath(idx)[1] /\ idx' = NextPath(idx)[2]
                         /\ gexc' = gexc
                    ELSE /\ gpc' = "raised" /\ idx' = idx
                         /\ gexc' = [type |-> "Exception", at |-> "truetype"]
    /\ UNCHANGED <<height, width, letter, font_size_ratio, font_size, probed,
                   default_tried, bbox, text_width, text_height, x, y, drawn,
                   result, mvars>>

\* lines 69-75: the generic default font, when no candidate loaded
GFontCheck ==
    /\ gpc = "fontcheck"
    /\ IF font # NoFont
       THEN /\ gpc' = "measure"
            /\ UNCHANGED <<font, default_tried, gout, gexc>>
       ELSE /\ default_tried' = TRUE
            /\ \E ok \in BOOLEAN :
                 IF ok
                 THEN /\ font' = [kind |-> "default"]
                      /\ gout' = Append(gout, [msg |-> "Using default font"])
                      /\ gpc' = "measure"
                      /\ gexc' = gexc
                 ELSE /\ font' = font
                      /\ IF OnDefaultRaise = "fallback"
                         THEN /\ gout' = Append(gout,
                                   [msg |-> "Creating block letter using drawing primitives"])
                              /\ gpc' = "simple"
                              /\ gexc' = gexc
                         ELSE /\ gout' = gout
                              /\ gpc' = "raised"
                              /\ gexc' = [type |-> "Exception", at |-> "load_default"]
    /\ UNCHANGED <<height, width, letter, font_size_ratio, font_size, idx,
                   probed, loads, bbox, text_width, text_height, x, y, drawn,
                   result, mvars>>

\* lines 105-139: _create_simple_block_letter(height, width, letter), whose
\* raster line 76 returns.  letter_width // 2 and letter_height // 2 are the
\* floors of 0.3 * width and 0.4 * height.
SimpleBlockLetter(h, w, l) ==
    LET center_x == w \div 2
        center_y == h \div 2
        half_w == PyFloorDiv(6 * w, 20)
        half_h == PyFloorDiv(8 * h, 20)
        thickness == IF (IF w < h THEN w ELSE h) \div 10 > 5
                     THEN (IF w < h THEN w ELSE h) \div 10 ELSE 5
    IN [kind |-> "primitives",
        shape |-> <<h, w>>,
        ellipses |-> IF Upper(l) = "S"
                     THEN << [box |-> <<center_x - half_w, center_y - half_h,
                                        center_x + half_w, center_y>>,
                              width |-> thickness],
                             [box |-> <<center_x - half_w, center_y,
                                        center_x + half_w, center_y + half_h>>,
                              width |-> thickness] >>
                     ELSE <<>>]

GSimple ==
    /\ gpc = "simple"
    /\ result' = SimpleBlockLetter(height, width, letter)
    /\ gpc' = "returned"
    /\ UNCHANGED <<height, width, letter, font_size_ratio, font_size, idx, font,
                   probed, loads, default_tried, bbox, text_width, text_height,
                   x, y, drawn, gout, gexc, mvars>>

\* lines 79-87: draw.textbbox, or the estimate when it raises.  text_width and
\* text_height are held in tenths (width * 0.6 is 6 * width tenths).
GMeasure ==
    /\ gpc = "measure"
    /\ \E ok \in BOOLEAN :
         IF ok
         THEN \E b \in BBoxes :
                /\ bbox' = b
                /\ text_width' = 10 * (b[3] - b[1])
                /\ text_height' = 10 * (b[4] - b[2])
                /\ gpc' = "draw" /\ gexc' = gexc
         ELSE /\ bbox' = bbox
              /\ IF OnBboxRaise = "estimate"
                 THEN /\ text_width' = 6 * width
                      /\ text_height' = 8 * height
                      /\ gpc' = "draw" /\ gexc' = gexc
                 ELSE /\ UNCHANGED <<text_width, text_height>>
                      /\ gpc' = "raised"
                      /\ gexc' = [type |-> "Exception", at |-> "textbbox"]
    /\ UNCHANGED <<height, width, letter, font_size_ratio, font_size, idx, font,
                   probed, loads, default_tried, x, y, drawn, gout, result,
                   mvars>>

\* lines 89-93: the centred position and draw.text
GDraw ==
    /\ gpc = "draw"
    /\ x' = PyFloorDiv(10 * width - text_width, 20)
    /\ y' = PyFloorDiv(10 * height - text_height, 20)
    /\ drawn' = <<[xy |-> <<x', y'>>, text |-> letter, fill |-> 0, font |-> font]>>
    /\ gpc' = "convert"
    /\ UNCHANGED <<height, width, letter, font_size_ratio, font_size, idx, font,
                   probed, loads, default_tried, bbox, text_width, text_height,
                   gout, gexc, result, mvars>>

\* lines 96-102: the canvas as an array of the canvas's shape
GReturn ==
    /\ gpc = "convert"
    /\ result' = [kind |-> "text", shape |-> <<height, width>>, text |-> drawn]
    /\ gout' = Append(gout, [msg |-> "Created block letter", letter |-> letter,
                             size |-> <<height, width>>])
    /\ gpc' = "returned"
    /\ UNCHANGED <<height, width, letter, font_size_ratio, font_size, idx, font,
                   probed, loads, default_tried, bbox, text_width, text_height,
                   x, y, drawn, gexc, mvars>>

GStep ==
    \/ GProbe
    \/ GLoad
    \/ GFontCheck
    \/ GSimple
    \/ GMeasure
    \/ GDraw
    \/ GReturn

Init == MInit /\ GIdle

Next ==
    \/ Call
    \/ CheckShape
    \/ Copy
    \/ Threshold
    \/ Assign
    \/ Report
    \/ Return
    \/ CallAgain
    \/ CallerWrite

Spec == Init /\ [][Next]_vars

GNext ==
    \/ GCall
    \/ GProbe
    \/ GLoad
    \/ GFontCheck
    \/ GSimple
    \/ GMeasure
    \/ GDraw
    \/ GReturn

GlyphSpec == Init /\ [][GNext]_vars

-----------------------------------------------------------------------------
(* Properties of create_block_letter_s, checked under GlyphSpec *)

\* candidate i was probed and did not yield a font
Skipped(i) ==
    /\ i \in DOMAIN probed
    /\ \/ ~probed[i].exists
       \/ \E k \in DOMAIN loads : loads[k].path = i /\ ~loads[k].ok

\* C7: for positive height and width no exception reaches the caller, whatever
\* candidates are missing or fail to load, whether or not the default font
\* loads and whether or not the measurement fails; every call that has not
\* returned can take its next step, and what it returns is a raster of the
\* requested shape.
C7_NeverRaises ==
    /\ gpc # "raised"
    /\ gexc = NoError
    /\ gpc \notin {"idle", "returned"} => ENABLED GStep
    /\ gpc = "returned" => result # NoRaster /\ result.shape = <<height, width>>

\* a call has returned although a candidate was missing, a candidate failed to
\* load, every candidate failed, and the measurement failed
C7_Witness ==
    /\ gpc = "returned"
    /\ \E i \in DOMAIN probed : ~probed[i].exists
    /\ \E k \in DOMAIN loads : ~loads[k].ok
    /\ font = [kind |-> "default"]
    /\ bbox = <<>>
    /\ result.kind = "text"

\* C8: candidates are probed strictly in list order; a missing candidate and
\* a candidate whose load raises are skipped; the font used is the first
\* candidate that loads, and nothing is probed after it; the default font is
\* tried only after every candidate failed; the procedural fallback is
\* entered only after the default font failed too, and its raster is
\* returned without any measuring or text drawing.
C8_PriorityChain ==
    /\ \A i \in DOMAIN probed : probed[i].path = i
    /\ Len(probed) <= Len(font_paths)
    /\ \A k \in DOMAIN loads :
         /\ loads[k].path \in DOMAIN probed /\ probed[loads[k].path].exists
         /\ \A j \in DOMAIN loads : j < k => loads[j].path < loads[k].path /\ ~loads[j].ok
    /\ font.kind = "truetype" =>
         /\ font.path = Len(probed)
         /\ loads[Len(loads)] = [path |-> font.path, size |-> font_size,
                                 index0 |-> EndsWithTtc(font.path), ok |-> TRUE]
         /\ \A i \in 1..(font.path - 1) : Skipped(i)
         /\ ~default_tried
    /\ (font.kind # "truetype" /\ gpc \notin {"idle", "probe", "load"}) =>
         \A i \in DOMAIN font_paths : Skipped(i)
    /\ default_tried => \A i \in DOMAIN font_paths : Skipped(i)
    /\ font.kind = "default" => default_tried
    /\ (gpc = "simple" \/ (gpc = "returned" /\ result.kind = "primitives")) =>
         /\ default_tried /\ font = NoFont
         /\ bbox = <<>> /\ drawn = <<>>
    /\ (gpc = "returned" /\ result.kind = "text") => font # NoFont /\ drawn # <<>>

\* the third candidate was used after the first was missing and the second
\* failed to load
C8_Witness ==
    /\ gpc = "returned"
    /\ font.kind = "truetype" /\ font.path = 3
    /\ ~probed[1].exists
    /\ probed[2].exists /\ ~loads[1].ok
    /\ Len(probed) = 3

\* C9 as stated: the size handed to the font loader is height * sizeRatio
\* rounded to a nearest integer (a product such as 2.7 gives 3).  A product
\* that lies half way between two integers is allowed either neighbour here.
C9_SizeIsRounded ==
    \A k \in DOMAIN loads :
        /\ 10 * loads[k].size - height * font_size_ratio <= 5
        /\ height * font_size_ratio - 10 * loads[k].size <= 5

\* C9 as amended: the size handed to the font loader is height * sizeRatio
\* truncated to an integer (the fractional part is dropped).
C9_SizeIsTruncated ==
    \A k \in DOMAIN loads :
        /\ 10 * loads[k].size <= height * font_size_ratio
        /\ height * font_size_ratio < 10 * (loads[k].size + 1)

\* a font was loaded at size 2 for height 3 and ratio 0.9 (product 2.7)
C9_Witness ==
    /\ height = 3 /\ font_size_ratio = DefaultRatio
    /\ \E k \in DOMAIN loads : loads[k].ok /\ loads[k].size = 2

\* the differences the offsets halve, when the box was measured
DiffX == width - (bbox[3] - bbox[1])
DiffY == height - (bbox[4] - bbox[2])

Measured == gpc \in {"convert", "returned"} /\ bbox # <<>>

\* C10 as stated: with a measured box the offsets are the halved differences
\* rounded toward zero.
C10_OffsetTowardZero ==
    Measured =>
        /\ x = (IF DiffX >= 0 THEN DiffX \div 2 ELSE -((-DiffX) \div 2))
        /\ y = (IF DiffY >= 0 THEN DiffY \div 2 ELSE -((-DiffY) \div 2))

\* C10 as amended: with a measured box the offsets are the halved differences
\* rounded toward minus infinity (floor), which differs from rounding toward
\* zero exactly when the difference is negative and odd.
C10_OffsetFloored ==
    Measured =>
        /\ 2 * x <= DiffX /\ DiffX < 2 * x + 2
        /\ 2 * y <= DiffY /\ DiffY < 2 * y + 2
        /\ drawn[1].xy = <<x, y>>

\* the letter was drawn at x = -1 for a box one cell wider than the canvas
C10_Witness ==
    /\ Measured /\ gpc = "returned"
    /\ DiffX = -1 /\ x = -1
    /\ DiffY = 1 /\ y = 0

=============================================================================
